---- MODULE Spec2Model ----
(***************************************************************************)
(* State-machine model of backend/main.py of the AI Peak Clip Generator:   *)
(* the Dispatcher (process_video), the Runner (run_job, one background     *)
(* task per submission, stepping from one collaborator call to the next)   *)
(* and the Status Resolver (status), all sharing the directory OUTPUT_DIR. *)
(* File names and job ids are strings, modelled as sequences of            *)
(* one-character strings so that str.startswith is a real prefix test.     *)
(***************************************************************************)
EXTENDS Integers, Sequences, FiniteSets, TLC

\* ------------------------------------------------------------------ bounds

\* Largest number of segments detect_peak_segments returns in the model.
MaxSegs == 3

\* ------------------------------------------------------------- input sets

\* Request bodies' url field: the empty string and two locators.
Urls == {"", "u", "v"}

\* Values str(uuid.uuid4()) takes in the model: strings of one fixed length
\* over the hexadecimal alphabet (a uuid has 36 characters, none of them
\* "t" or "_"), two of them with a common first character. A process of the
\* model accepts one submission per value.
UUIDS == {<<"a", "b">>, <<"a", "c">>}

\* Duration argument of vu.crop_vertical.
CLIP_DURATION == 12

\* ---------------------------------------------------------------- strings

TEMP_PREFIX == <<"t", "e", "m", "p", "_">>
MP4 == <<".", "m", "p", "4">>
OUTPUTS_URL == <<"/", "o", "u", "t", "p", "u", "t", "s", "/">>

Digit(d) == <<"0", "1", "2", "3", "4", "5", "6", "7", "8", "9">>[d + 1]

\* str(n) of a non-negative int, as the f-strings format it.
RECURSIVE Str(_)
Str(n) == IF n < 10 THEN <<Digit(n)>> ELSE Str(n \div 10) \o <<Digit(n % 10)>>

\* str.startswith
startswith(f, p) == Len(p) <= Len(f) /\ SubSeq(f, 1, Len(p)) = p

\* The temp name without the job id.
temp_out_without_job(job_id, i) == TEMP_PREFIX \o Str(i) \o MP4

\* f"temp_{job_id}_{i}.mp4"
temp_out(job_id, i) == TEMP_PREFIX \o job_id \o <<"_">> \o Str(i) \o MP4

\* f"{job_id}_{i}.mp4"
final_out(job_id, i) == job_id \o <<"_">> \o Str(i) \o MP4

\* ------------------------------------------------------------------ state

VARIABLES
    tasks,      \* background tasks in scheduling order: the frames of run_job
    outputs,    \* OUTPUT_DIR: file name -> file content
    videos,     \* source-video copies on disk, named by the task that made them
    req,        \* the body of the last POST /process, <<url>>
    resp        \* the response to the last POST /process

vars == <<tasks, outputs, videos, req, resp>>

\* The process starts with no background task, an empty OUTPUT_DIR (created
\* at import time) and no request served yet.
Init ==
    /\ tasks = <<>>
    /\ outputs = <<>>
    /\ videos = {}
    /\ req = <<>>
    /\ resp = [code |-> 0]

\* Job ids handed out so far (every accepted submission schedules a task).
issued == {tasks[k].job_id : k \in DOMAIN tasks}

\* os.remove on a path of OUTPUT_DIR
remove(dir, name) == [f \in DOMAIN dir \ {name} |-> dir[f]]

\* ------------------------------------------------------------- Dispatcher

\* uuid.uuid4(): a value no earlier call in this process returned.
uuid4 == UUIDS \ issued

\* The frame run_job(url, job_id) starts with; burned counts the
\* burn_caption calls that returned, err is the stage the handler logged.
NewTask(url, job_id) ==
    [url |-> url, job_id |-> job_id, pc |-> "download", clips |-> <<>>,
     i |-> 0, burned |-> 0, err |-> "none"]

\* process_video without its check of req.url.
process_video_unchecked(url) ==
    /\ req' = <<url>>
    /\ \E job_id \in uuid4 :
          /\ tasks' = Append(tasks, NewTask(url, job_id))
          /\ resp' = [code |-> 200, job_id |-> job_id, status |-> "processing"]
    /\ UNCHANGED <<outputs, videos>>

\* process_video with the folder clearing its comment mentions.
process_video_clears_folder(url) ==
    /\ req' = <<url>>
    /\ IF url = ""
       THEN /\ resp' = [code |-> 400, detail |-> "URL is required"]
            /\ UNCHANGED <<tasks, outputs, videos>>
       ELSE /\ \E job_id \in uuid4 :
                  /\ tasks' = Append(tasks, NewTask(url, job_id))
                  /\ resp' = [code |-> 200, job_id |-> job_id,
                              status |-> "processing"]
            /\ outputs' = <<>>
            /\ UNCHANGED videos

\* process_video with the job id made once and used for every submission.
process_video_reused_id(url) ==
    /\ req' = <<url>>
    /\ IF url = ""
       THEN /\ resp' = [code |-> 400, detail |-> "URL is required"]
            /\ UNCHANGED <<tasks, outputs, videos>>
       ELSE /\ Len(tasks) < Cardinality(UUIDS)
            /\ \E job_id \in IF tasks = <<>> THEN uuid4 ELSE {tasks[1].job_id} :
                  /\ tasks' = Append(tasks, NewTask(url, job_id))
                  /\ resp' = [code |-> 200, job_id |-> job_id,
                              status |-> "processing"]
            /\ UNCHANGED <<outputs, videos>>

\* POST /process
process_video(url) ==
    /\ req' = <<url>>
    /\ IF url = ""
       THEN /\ resp' = [code |-> 400, detail |-> "URL is required"]
            /\ UNCHANGED <<tasks, outputs, videos>>
       ELSE /\ \E job_id \in uuid4 :
                  /\ tasks' = Append(tasks, NewTask(url, job_id))
                  /\ resp' = [code |-> 200, job_id |-> job_id,
                              status |-> "processing"]
            /\ UNCHANGED <<outputs, videos>>

\* ----------------------------------------------------------------- Runner

\* What detect_peak_segments may return: n segments at increasing offsets.
Detections ==
    {[k \in 1..n |-> [start |-> 10 * k]] : n \in 0..MaxSegs}

\* get_captions_for_video: the same segments in the same order, each given
\* a caption text.
Captioned(clips) ==
    [k \in DOMAIN clips |->
        [start |-> clips[k].start, caption |-> <<"caption", clips[k].start>>]]

\* The statements of run_job at which a call can raise.
Stages == {"download", "detect", "caption", "crop", "burn", "rm_temp", "rm_video"}

\* A handler that logs the error and starts the job over.
Catch_and_retry(t) == [t EXCEPT !.pc = "download", !.err = t.pc]

\* A handler that logs the error and lets the task go on.
Catch_and_go_on(t) == [t EXCEPT !.err = t.pc]

\* except Exception as e: print(...) -- the task ends, the error is logged.
Catch(t) == [t EXCEPT !.pc = "done", !.err = t.pc]

\* Head of the for loop over result["clips"], entered with index i.
LoopHead(t, i) ==
    IF i < Len(t.clips)
    THEN [t EXCEPT !.pc = "crop", !.i = i]
    ELSE [t EXCEPT !.pc = "rm_video", !.i = i]

\* video_path = download_video(url)
Download(k) ==
    /\ tasks[k].pc = "download"
    /\ videos' = videos \cup {k}
    /\ tasks' = [tasks EXCEPT ![k].pc = "detect"]
    /\ UNCHANGED <<outputs, req, resp>>

\* result = detect_peak_segments(video_path)
Detect(k) ==
    /\ tasks[k].pc = "detect"
    /\ \E d \in Detections :
          tasks' = [tasks EXCEPT ![k].pc = "caption", ![k].clips = d]
    /\ UNCHANGED <<outputs, videos, req, resp>>

\* The loop entered at index 1.
Caption_loop_from_one(k) ==
    /\ tasks[k].pc = "caption"
    /\ tasks' = [tasks EXCEPT
                   ![k] = LoopHead([@ EXCEPT !.clips = Captioned(@)], 1)]
    /\ UNCHANGED <<outputs, videos, req, resp>>

\* result["clips"] = get_captions_for_video(video_path, result["clips"])
Caption(k) ==
    /\ tasks[k].pc = "caption"
    /\ tasks' = [tasks EXCEPT
                   ![k] = LoopHead([@ EXCEPT !.clips = Captioned(@)], 0)]
    /\ UNCHANGED <<outputs, videos, req, resp>>

\* vu.crop_vertical(video_path, temp_out, p["start"], 12)
Crop(k) ==
    LET t == tasks[k]
        p == t.clips[t.i + 1]
    IN  /\ t.pc = "crop"
        /\ k \in videos
        /\ outputs' = (temp_out(t.job_id, t.i) :>
                         [video |-> k, start |-> p.start,
                          duration |-> CLIP_DURATION]) @@ outputs
        /\ tasks' = [tasks EXCEPT ![k].pc = "burn"]
        /\ UNCHANGED <<videos, req, resp>>

\* burn_caption given the caption of the first segment for every index.
Burn_first_caption(k) ==
    LET t == tasks[k]
        p == t.clips[1]
    IN  /\ t.pc = "burn"
        /\ temp_out(t.job_id, t.i) \in DOMAIN outputs
        /\ outputs' = (final_out(t.job_id, t.i) :>
                         [src |-> outputs[temp_out(t.job_id, t.i)],
                          caption |-> p.caption]) @@ outputs
        /\ tasks' = [tasks EXCEPT ![k].pc = "rm_temp",
                                  ![k].burned = @ + 1]
        /\ UNCHANGED <<videos, req, resp>>

\* vu.burn_caption(temp_out, final_out, p["caption"])
Burn(k) ==
    LET t == tasks[k]
        p == t.clips[t.i + 1]
    IN  /\ t.pc = "burn"
        /\ temp_out(t.job_id, t.i) \in DOMAIN outputs
        /\ outputs' = (final_out(t.job_id, t.i) :>
                         [src |-> outputs[temp_out(t.job_id, t.i)],
                          caption |-> p.caption]) @@ outputs
        /\ tasks' = [tasks EXCEPT ![k].pc = "rm_temp",
                                  ![k].burned = @ + 1]
        /\ UNCHANGED <<videos, req, resp>>

\* The loop body without its temp cleanup.
RmTemp_keeps_temp(k) ==
    LET t == tasks[k]
    IN  /\ t.pc = "rm_temp"
        /\ tasks' = [tasks EXCEPT ![k] = LoopHead(t, t.i + 1)]
        /\ UNCHANGED <<outputs, videos, req, resp>>

\* The source-video cleanup indented into the loop body.
RmTemp_and_video(k) ==
    LET t == tasks[k]
    IN  /\ t.pc = "rm_temp"
        /\ outputs' = IF temp_out(t.job_id, t.i) \in DOMAIN outputs
                      THEN remove(outputs, temp_out(t.job_id, t.i))
                      ELSE outputs
        /\ videos' = videos \ {k}
        /\ tasks' = [tasks EXCEPT ![k] = LoopHead(t, t.i + 1)]
        /\ UNCHANGED <<req, resp>>

\* The cleanup applied to final_out instead of temp_out.
RmTemp_removes_final(k) ==
    LET t == tasks[k]
    IN  /\ t.pc = "rm_temp"
        /\ outputs' = IF final_out(t.job_id, t.i) \in DOMAIN outputs
                      THEN remove(outputs, final_out(t.job_id, t.i))
                      ELSE outputs
        /\ tasks' = [tasks EXCEPT ![k] = LoopHead(t, t.i + 1)]
        /\ UNCHANGED <<videos, req, resp>>

\* if os.path.exists(temp_out): os.remove(temp_out) -- then the next index
RmTemp(k) ==
    LET t == tasks[k]
    IN  /\ t.pc = "rm_temp"
        /\ outputs' = IF temp_out(t.job_id, t.i) \in DOMAIN outputs
                      THEN remove(outputs, temp_out(t.job_id, t.i))
                      ELSE outputs
        /\ tasks' = [tasks EXCEPT ![k] = LoopHead(t, t.i + 1)]
        /\ UNCHANGED <<videos, req, resp>>

\* The final cleanup done with shutil.rmtree on the whole folder.
RmVideo_clears_folder(k) ==
    /\ tasks[k].pc = "rm_video"
    /\ videos' = videos \ {k}
    /\ outputs' = <<>>
    /\ tasks' = [tasks EXCEPT ![k].pc = "done"]
    /\ UNCHANGED <<req, resp>>

\* if os.path.exists(video_path): os.remove(video_path) -- then return
RmVideo(k) ==
    /\ tasks[k].pc = "rm_video"
    /\ videos' = videos \ {k}
    /\ tasks' = [tasks EXCEPT ![k].pc = "done"]
    /\ UNCHANGED <<outputs, req, resp>>

\* A call of the current statement raises (a collaborator fails, or
\* os.remove fails on a path that exists); run_job's handler catches it.
Raise(k) ==
    LET t == tasks[k]
    IN  /\ t.pc \in Stages
        /\ t.pc = "rm_temp" => temp_out(t.job_id, t.i) \in DOMAIN outputs
        /\ t.pc = "rm_video" => k \in videos
        /\ tasks' = [tasks EXCEPT ![k] = Catch(t)]
        /\ UNCHANGED <<outputs, videos, req, resp>>

\* -------------------------------------------------------- Status Resolver

\* The listing without its job id test.
files_of_any_job(job_id) ==
    {f \in DOMAIN outputs : ~startswith(f, TEMP_PREFIX)}

\* The listing without its temp marker test.
files_with_temps(job_id) ==
    {f \in DOMAIN outputs : startswith(f, job_id)}

\* [f for f in os.listdir(OUTPUT_DIR)
\*    if f.startswith(job_id) and not f.startswith("temp_")]
files(job_id) ==
    {f \in DOMAIN outputs :
        startswith(f, job_id) /\ ~startswith(f, TEMP_PREFIX)}

\* f"/outputs/{f}"
url_of(f) == OUTPUTS_URL \o f

\* [f"/outputs/{f}" for f in files]; os.listdir names each file once, in no
\* particular order.
clip_urls(fs) == {url_of(f) : f \in fs}

\* The message with the threshold comparison off by one.
message_above_three(count) ==
    IF count <= 3
    THEN <<"Only ">> \o Str(count) \o <<" major peak moment found.">>
    ELSE <<"Multiple peak moments detected!">>

\* The message status derives from count.
message(count) ==
    IF count < 3
    THEN <<"Only ">> \o Str(count) \o <<" major peak moment found.">>
    ELSE <<"Multiple peak moments detected!">>

\* The response with finished standing for "several clips are ready".
StatusOf_finished_when_multiple(job_id) ==
    LET fs == files(job_id)
        count == Cardinality(fs)
    IN  [job_id |-> job_id, clips |-> clip_urls(fs), count |-> count,
         message |-> message(count), finished |-> count > 1]

\* The body GET /status/{job_id} returns in the current state.
StatusOf(job_id) ==
    LET fs == files(job_id)
        count == Cardinality(fs)
    IN  [job_id |-> job_id, clips |-> clip_urls(fs), count |-> count,
         message |-> message(count), finished |-> count > 0]

\* Path parameters of GET /status/{job_id} (the route matches no empty
\* segment): for every job id its non-empty prefixes, itself included, its
\* extensions into a final file name, and the same behind the temp marker;
\* and the prefixes of the temp marker.
JobIdStrings ==
    LET Prefixes(f) == {SubSeq(f, 1, n) : n \in 1..Len(f)}
    IN  UNION {Prefixes(j) \cup {j \o <<"_">>, final_out(j, 0),
                                 TEMP_PREFIX \o j, temp_out(j, 0)}
               : j \in UUIDS}
            \cup Prefixes(TEMP_PREFIX)

\* GET /status/{job_id}: the handler reads OUTPUT_DIR and writes nothing.
status(job_id) ==
    /\ StatusOf(job_id).job_id = job_id
    /\ UNCHANGED vars

\* One step of the background task k: the call it is at returns or raises.
RunnerStep(k) ==
    /\ k \in DOMAIN tasks
    /\ \/ Download(k)
       \/ Detect(k)
       \/ Caption(k)
       \/ Crop(k)
       \/ Burn(k)
       \/ RmTemp(k)
       \/ RmVideo(k)
       \/ Raise(k)

\* ---------------------------------------------------------- specification

Next ==
    \/ \E url \in Urls : process_video(url)
    \/ \E k \in DOMAIN tasks : Download(k)
    \/ \E k \in DOMAIN tasks : Detect(k)
    \/ \E k \in DOMAIN tasks : Caption(k)
    \/ \E k \in DOMAIN tasks : Crop(k)
    \/ \E k \in DOMAIN tasks : Burn(k)
    \/ \E k \in DOMAIN tasks : RmTemp(k)
    \/ \E k \in DOMAIN tasks : RmVideo(k)
    \/ \E k \in DOMAIN tasks : Raise(k)
    \/ \E job_id \in JobIdStrings : status(job_id)

Spec == Init /\ [][Next]_vars

\* Every scheduled background task runs in a thread of its own, and every
\* call it makes returns or raises: a task that can step eventually steps.
FairSpec ==
    Spec /\ \A k \in 1..Cardinality(UUIDS) : WF_vars(RunnerStep(k))

\* ------------------------------------------------------------------ claims

\* File names of one job id.
TempsOf(job_id) == {temp_out(job_id, i) : i \in 0..(MaxSegs - 1)}
FinalsOf(job_id) == {final_out(job_id, i) : i \in 0..(MaxSegs - 1)}

\* The clip URLs of the first n segments of a job id.
FirstClips(job_id, n) == {url_of(final_out(job_id, i)) : i \in 0..(n - 1)}

Finished(t) == t.pc = "done"

\* C1 (as claimed): once a Runner has finished, by completing or by an
\* exception in any stage, no temp artifact of its job id is in the Output
\* Store and its source-video copy is gone.
C1_CleanAfterFinish ==
    \A k \in DOMAIN tasks :
        Finished(tasks[k]) =>
            /\ TempsOf(tasks[k].job_id) \cap DOMAIN outputs = {}
            /\ k \notin videos

\* C2 (as claimed): for a Runner that completed all N segments without a
\* stage raising, status reports the N clip URLs, count = N and finished.
C2_CompleteJobReportsFinished ==
    \A k \in DOMAIN tasks :
        LET t == tasks[k]
            r == StatusOf(t.job_id)
        IN  (Finished(t) /\ t.err = "none") =>
                /\ r.clips = FirstClips(t.job_id, Len(t.clips))
                /\ r.count = Len(t.clips)
                /\ r.finished = TRUE

\* C2 (amended): for a Runner that completed all N segments without a stage
\* raising, status reports exactly the N clip URLs /outputs/<job_id>_<i>.mp4,
\* i in 0..N-1, and count = N; finished is true when N >= 1 and false when
\* detection returned no segment.
C2_CompleteJobReportsAllClips ==
    \A k \in DOMAIN tasks :
        LET t == tasks[k]
            r == StatusOf(t.job_id)
        IN  (Finished(t) /\ t.err = "none") =>
                /\ r.clips = FirstClips(t.job_id, Len(t.clips))
                /\ r.count = Len(t.clips)
                /\ r.finished = (Len(t.clips) >= 1)

\* Both Runners completed without raising, one with the most segments and
\* one with none.
C2_Witness ==
    /\ Len(tasks) = 2
    /\ \A k \in DOMAIN tasks : Finished(tasks[k]) /\ tasks[k].err = "none"
    /\ \E k \in DOMAIN tasks : Len(tasks[k].clips) = MaxSegs
    /\ \E k \in DOMAIN tasks : Len(tasks[k].clips) = 0

\* C3 (as claimed): a status query for a string no submission returned
\* reports count 0, not finished and no clip, whatever the Output Store holds.
C3_UnknownIdReportsNothing ==
    \A q \in JobIdStrings \ issued :
        LET r == StatusOf(q)
        IN  r.count = 0 /\ r.finished = FALSE /\ r.clips = {}

\* C4: in every state the clip list of a status query, for any path
\* parameter, holds no temp artifact of any job id and index, and the clip
\* list of a query for a job id (a uuid4 string) holds every final artifact
\* of that job id that is in the Output Store.
C4_TempNeverListedFinalAlwaysListed ==
    /\ \A q \in JobIdStrings :
          LET listed == StatusOf(q).clips
          IN  \A j \in UUIDS : \A f \in TempsOf(j) : url_of(f) \notin listed
    /\ \A j \in UUIDS :
          LET listed == StatusOf(j).clips
          IN  \A f \in FinalsOf(j) \cap DOMAIN outputs : url_of(f) \in listed

\* A Runner is between its crop and its delete of segment 1: the Output
\* Store holds a temp artifact and a final artifact of the same job.
C4_Witness ==
    \E k \in DOMAIN tasks :
        /\ tasks[k].pc = "rm_temp"
        /\ tasks[k].i = 1
        /\ temp_out(tasks[k].job_id, 1) \in DOMAIN outputs
        /\ final_out(tasks[k].job_id, 1) \in DOMAIN outputs

\* C5: a submission with an empty url is answered 400 and leaves the
\* scheduled tasks, the job ids handed out, the Output Store and the
\* source-video copies as they were.
C5_EmptyUrlRejected ==
    [][(req' = <<"">> /\ <<req, resp>>' # <<req, resp>>) =>
          /\ resp'.code = 400
          /\ UNCHANGED <<tasks, outputs, videos>>]_vars

\* An empty submission was rejected while a job was scheduled and had
\* written to the Output Store.
C5_Witness ==
    /\ req = <<"">>
    /\ resp.code = 400
    /\ tasks # <<>>
    /\ DOMAIN outputs # {}

\* C6: once a stage of a Runner has raised, the Runner is over (the handler
\* swallowed the exception and run_job returned), it never crops or burns
\* again, and every final artifact of its job stays in the Output Store,
\* unchanged, and stays in the clip list of a status query for the job.
C6_FailureStopsRunnerKeepsClips ==
    [][\A k \in DOMAIN tasks :
          tasks[k].err # "none" =>
             /\ Finished(tasks[k])
             /\ tasks'[k] = tasks[k]
             /\ DOMAIN outputs' \cap (TempsOf(tasks[k].job_id) \cup FinalsOf(tasks[k].job_id))
                   = DOMAIN outputs \cap (TempsOf(tasks[k].job_id) \cup FinalsOf(tasks[k].job_id))
             /\ \A f \in FinalsOf(tasks[k].job_id) \cap DOMAIN outputs :
                   /\ outputs'[f] = outputs[f]
                   /\ url_of(f) \in StatusOf(tasks[k].job_id).clips
                   /\ url_of(f) \in clip_urls(files(tasks[k].job_id)')]_vars

\* A Runner was aborted while rendering segment 1, after the final artifact
\* of segment 0 was written, and the other Runner is still running.
C6_Witness ==
    \E k \in DOMAIN tasks :
        /\ tasks[k].err \in {"crop", "burn"}
        /\ tasks[k].i = 1
        /\ final_out(tasks[k].job_id, 0) \in DOMAIN outputs
        /\ \E m \in DOMAIN tasks : tasks[m].pc = "burn"

\* C7 (as claimed): a failed deletion of a temp artifact does not abort the
\* pipeline: a Runner whose temp deletion failed still renders every later
\* segment and removes the source-video copy.
C7_CleanupFailureDoesNotAbort ==
    \A k \in DOMAIN tasks :
        (Finished(tasks[k]) /\ tasks[k].err = "rm_temp") =>
            /\ tasks[k].burned = Len(tasks[k].clips)
            /\ k \notin videos

\* C8: every final artifact <job_id>_<i>.mp4 in the Output Store was rendered
\* from the start offset and the caption of element i of the captioned
\* sequence of its job (index i is within that sequence), also after a later
\* step of the Runner failed.
C8_IndexAlignment ==
    \A k \in DOMAIN tasks :
        \A i \in 0..(MaxSegs - 1) :
            LET t == tasks[k]
                f == final_out(t.job_id, i)
            IN  f \in DOMAIN outputs =>
                    /\ i < Len(t.clips)
                    /\ outputs[f].src.start = t.clips[i + 1].start
                    /\ outputs[f].src.video = k
                    /\ outputs[f].src.duration = CLIP_DURATION
                    /\ outputs[f].caption = t.clips[i + 1].caption

\* Segments 0 and 1 of a job are rendered and a later step of its Runner
\* failed.
C8_Witness ==
    \E k \in DOMAIN tasks :
        /\ tasks[k].err \in {"crop", "burn", "rm_temp"}
        /\ tasks[k].burned >= 2
        /\ final_out(tasks[k].job_id, 1) \in DOMAIN outputs

\* C9: a submission with a non-empty url is answered with status
\* "processing" and a job id that no earlier submission was given, and
\* schedules exactly one Runner, with that url and that job id; nothing else
\* schedules a Runner.
C9_FreshJobIdOneRunner ==
    [][(Len(tasks') # Len(tasks)
            \/ (<<req, resp>>' # <<req, resp>> /\ req' # <<"">>)) =>
          /\ req' \in {<<url>> : url \in Urls \ {""}}
          /\ resp'.code = 200
          /\ resp'.status = "processing"
          /\ resp'.job_id \notin issued
          /\ tasks' = Append(tasks, NewTask(req'[1], resp'.job_id))]_vars

\* Two submissions were accepted, the first job's Runner already running.
C9_Witness ==
    /\ Len(tasks) = 2
    /\ tasks[1].job_id # tasks[2].job_id
    /\ tasks[1].pc # "download"
    /\ tasks[2].pc = "download"
    /\ resp = [code |-> 200, job_id |-> tasks[2].job_id, status |-> "processing"]

\* C10: at every moment of a job's run a status query for its job id reports
\* exactly the segments whose caption-burn has returned: with k of them,
\* count = k, the clip list is the k URLs of indices 0..k-1, and finished is
\* true exactly when k >= 1 (count 0 and not finished before the first
\* caption-burn returns).
C10_StatusTracksBurnedSegments ==
    \A k \in DOMAIN tasks :
        LET t == tasks[k]
            r == StatusOf(t.job_id)
        IN  /\ r.count = t.burned
            /\ r.clips = FirstClips(t.job_id, t.burned)
            /\ r.finished = (t.burned >= 1)

\* Two of three segments of a job are rendered and its Runner is still
\* running, while the other job has rendered nothing yet.
C10_Witness ==
    \E k \in DOMAIN tasks :
        /\ Len(tasks[k].clips) = 3
        /\ tasks[k].burned = 2
        /\ tasks[k].pc \in {"rm_temp", "crop", "burn"}
        /\ \E m \in DOMAIN tasks : tasks[m].burned = 0 /\ tasks[m].pc = "crop"

\* C11: in every status response finished is true exactly when count > 0,
\* and count is the number of entries of the clip list.
C11_FinishedIffCountPositive ==
    \A q \in JobIdStrings :
        LET r == StatusOf(q)
        IN  /\ r.finished = (r.count > 0)
            /\ r.count = Cardinality(r.clips)

\* One job id has two clips and the other has none yet.
C11_Witness ==
    /\ \E j \in issued : StatusOf(j).count = 2
    /\ \E j \in issued : StatusOf(j).count = 0

\* The files of OUTPUT_DIR a step creates, rewrites or deletes.
Touched ==
    {f \in DOMAIN outputs \cup DOMAIN outputs' :
        \/ f \notin DOMAIN outputs
        \/ f \notin DOMAIN outputs'
        \/ outputs[f] # outputs'[f]}

NamesOf(job_id) == TempsOf(job_id) \cup FinalsOf(job_id)

\* C12: whatever the interleaving of the Runners, a step that creates,
\* rewrites or deletes artifacts is a step of one Runner, every artifact it
\* touches is a temp or final name of that Runner's own job id, and none is
\* a name of another Runner; every artifact in the Output Store was written
\* by the one Runner whose job id it carries.
C12_RunnersTouchOnlyOwnFiles ==
    [][/\ Touched # {} =>
            \E k \in DOMAIN tasks :
                /\ tasks'[k] # tasks[k]
                /\ Touched \subseteq NamesOf(tasks[k].job_id)
                /\ \A m \in DOMAIN tasks \ {k} :
                      /\ tasks'[m] = tasks[m]
                      /\ Touched \cap NamesOf(tasks[m].job_id) = {}
       /\ \A f \in DOMAIN outputs' :
             \E k \in DOMAIN tasks' :
                /\ f \in NamesOf(tasks'[k].job_id)
                /\ (IF f \in TempsOf(tasks'[k].job_id)
                    THEN outputs'[f].video ELSE outputs'[f].src.video) = k
                /\ \A m \in DOMAIN tasks' \ {k} :
                      f \notin NamesOf(tasks'[m].job_id)]_vars

\* Both Runners hold a temp artifact at once, each after rendering a clip.
C12_Witness ==
    /\ Len(tasks) = 2
    /\ \A k \in DOMAIN tasks :
          /\ tasks[k].pc = "burn"
          /\ tasks[k].burned >= 1
          /\ temp_out(tasks[k].job_id, tasks[k].i) \in DOMAIN outputs

\* The steps run_job may take from one statement to the next: the stages in
\* order, the loop body in order for one index, the next index after the
\* temp deletion, the source-video deletion after the last index; from any
\* statement, the handler.
InOrder(t, u) ==
    \/ t.pc \in Stages /\ u.pc = "done" /\ u.err = t.pc
    \/ t.pc = "download" /\ u.pc = "detect"
    \/ t.pc = "detect" /\ u.pc = "caption"
    \/ t.pc = "caption" /\ u.pc = "crop" /\ u.i = 0 /\ Len(u.clips) > 0
    \/ t.pc = "caption" /\ u.pc = "rm_video" /\ Len(u.clips) = 0
    \/ t.pc = "crop" /\ u.pc = "burn" /\ u.i = t.i
    \/ t.pc = "burn" /\ u.pc = "rm_temp" /\ u.i = t.i
    \/ t.pc = "rm_temp" /\ u.pc = "crop" /\ u.i = t.i + 1
          /\ u.i < Len(u.clips)
    \/ t.pc = "rm_temp" /\ u.pc = "rm_video" /\ t.i + 1 = Len(u.clips)
    \/ t.pc = "rm_video" /\ u.pc = "done" /\ u.err = "none"

\* C13: within one job acquire completes before detect starts, detect before
\* caption, caption before the first crop; the segments are rendered in
\* increasing index order, crop(i), caption-burn(i), delete-temp(i) in that
\* order and all before crop(i+1); the source video is deleted only after the
\* delete-temp of the last segment, and is on disk for every stage between.
C13_StagesInOrder ==
    [][\A k \in DOMAIN tasks :
          LET t == tasks[k]
              u == tasks'[k]
              own == DOMAIN outputs \cap NamesOf(t.job_id)
              own2 == DOMAIN outputs' \cap NamesOf(t.job_id)
          IN  /\ u # t => InOrder(t, u)
              /\ (k \notin videos /\ k \in videos') =>
                    t.pc = "download" /\ u.pc = "detect"
              /\ (k \in videos /\ k \notin videos') =>
                    /\ t.pc = "rm_video"
                    /\ t.burned = Len(t.clips)
                    /\ TempsOf(t.job_id) \cap DOMAIN outputs = {}
              /\ t.pc \in {"detect", "caption", "crop", "burn", "rm_temp",
                           "rm_video"} => k \in videos
              /\ own2 # own =>
                    \/ /\ t.pc = "crop" /\ u.pc = "burn"
                       /\ own = {final_out(t.job_id, i) : i \in 0..(t.i - 1)}
                       /\ own2 = own \cup {temp_out(t.job_id, t.i)}
                    \/ /\ t.pc = "burn" /\ u.pc = "rm_temp"
                       /\ own2 = own \cup {final_out(t.job_id, t.i)}
                    \/ /\ t.pc = "rm_temp" /\ u.pc \in {"crop", "rm_video"}
                       /\ own2 = own \ {temp_out(t.job_id, t.i)}]_vars

\* A Runner has rendered all three segments and deleted the source video
\* while the other Runner is in the middle of its second segment.
C13_Witness ==
    \E k \in DOMAIN tasks :
        /\ tasks[k].pc = "done"
        /\ tasks[k].err = "none"
        /\ tasks[k].burned = 3
        /\ k \notin videos
        /\ \E m \in DOMAIN tasks : tasks[m].pc = "burn" /\ tasks[m].i = 1

\* C14: a submission, accepted or rejected, creates, rewrites and deletes no
\* file of the Output Store (and no source-video copy).
C14_SubmissionLeavesStoreAlone ==
    [][(<<req, resp>>' # <<req, resp>> \/ Len(tasks') # Len(tasks)) =>
          /\ outputs' = outputs
          /\ videos' = videos]_vars

\* The second submission was accepted while the first job's artifacts were
\* in the Output Store.
C14_Witness ==
    /\ Len(tasks) = 2
    /\ tasks[2].pc = "download"
    /\ resp = [code |-> 200, job_id |-> tasks[2].job_id, status |-> "processing"]
    /\ final_out(tasks[1].job_id, 0) \in DOMAIN outputs
    /\ temp_out(tasks[1].job_id, 1) \in DOMAIN outputs

\* Detection returned no segment for the Runner with frame t.
ZeroDetected(t) ==
    /\ Len(t.clips) = 0
    /\ \/ t.pc \in {"caption", "rm_video"}
       \/ t.pc = "done" /\ t.err \in {"none", "caption", "rm_video"}

\* C15 (as claimed): when detection returns zero segments the Runner writes
\* no temp or final artifact for its job id and ends with the source-video
\* copy deleted, and a status query for the job id reports count 0 and not
\* finished.
C15_ZeroSegmentsCleanExit ==
    \A k \in DOMAIN tasks :
        LET t == tasks[k]
        IN  ZeroDetected(t) =>
                /\ NamesOf(t.job_id) \cap DOMAIN outputs = {}
                /\ StatusOf(t.job_id).count = 0
                /\ StatusOf(t.job_id).finished = FALSE
                /\ Finished(t) => k \notin videos

\* C16: the message of every status response is "Multiple peak moments
\* detected!" exactly when count >= 3 and "Only <count> major peak moment
\* found." for every count below 3, count 0 included.
C16_MessageThreshold ==
    \A q \in JobIdStrings :
        LET r == StatusOf(q)
        IN  /\ r.count >= 3 <=> r.message = <<"Multiple peak moments detected!">>
            /\ r.count < 3 <=>
                  r.message = <<"Only ", Digit(r.count),
                                " major peak moment found.">>

\* Status responses with count 0, 2, 3 and more than 3 exist at once.
C16_Witness ==
    /\ \E q \in JobIdStrings : StatusOf(q).count = 0
    /\ \E q \in JobIdStrings : StatusOf(q).count = 2
    /\ \E q \in JobIdStrings : StatusOf(q).count = 3
    /\ \E q \in JobIdStrings : StatusOf(q).count > 3

\* C17: the count status reports for a minted job id never decreases from
\* one moment to the next, no clip leaves its clip list, and once it has
\* reported finished it reports finished ever after.
C17_CountNeverDecreases ==
    [][\A j \in issued :
          LET r == StatusOf(j)
              r2 == StatusOf(j)'
          IN  /\ r2.count >= r.count
              /\ r.clips \subseteq r2.clips
              /\ r.finished => r2.finished]_vars

\* A job that reported three clips has finished, its source video deleted.
C17_Witness ==
    \E k \in DOMAIN tasks :
        /\ StatusOf(tasks[k].job_id).count = 3
        /\ Finished(tasks[k])
        /\ k \notin videos

\* C18: in every state the indices with a final artifact of a minted job id
\* are 0..k-1 for some k: a final artifact of index i is in the Output Store
\* only if those of all lower indices are.
C18_FinalIndicesFormPrefix ==
    \A j \in issued :
        \A i \in 0..(MaxSegs - 1) :
            final_out(j, i) \in DOMAIN outputs =>
                \A h \in 0..(i - 1) : final_out(j, h) \in DOMAIN outputs

\* A Runner was aborted with final artifacts 0 and 1 of 3 written.
C18_Witness ==
    \E k \in DOMAIN tasks :
        /\ Len(tasks[k].clips) = 3
        /\ tasks[k].err = "crop"
        /\ final_out(tasks[k].job_id, 1) \in DOMAIN outputs
        /\ final_out(tasks[k].job_id, 2) \notin DOMAIN outputs

\* C19: in every state the Output Store holds at most one temp artifact per
\* minted job id, and a temp artifact of index i is there only while the
\* job's Runner is between crop(i) and delete-temp(i) or was aborted there.
C19_AtMostOneTempPerJob ==
    \A k \in DOMAIN tasks :
        LET t == tasks[k]
        IN  /\ Cardinality(TempsOf(t.job_id) \cap DOMAIN outputs) <= 1
            /\ \A i \in 0..(MaxSegs - 1) :
                  temp_out(t.job_id, i) \in DOMAIN outputs =>
                      /\ t.i = i
                      /\ \/ t.pc \in {"burn", "rm_temp"}
                         \/ t.pc = "done" /\ t.err \in {"burn", "rm_temp"}

\* One Runner was aborted in its caption-burn with its temp artifact left,
\* the other holds a temp artifact of its second segment.
C19_Witness ==
    /\ \E k \in DOMAIN tasks :
          /\ tasks[k].err = "burn"
          /\ temp_out(tasks[k].job_id, tasks[k].i) \in DOMAIN outputs
    /\ \E k \in DOMAIN tasks :
          /\ tasks[k].pc = "rm_temp"
          /\ tasks[k].i = 1
          /\ temp_out(tasks[k].job_id, 1) \in DOMAIN outputs

\* C20: provided every collaborator call returns or raises, every scheduled
\* Runner eventually reaches the end of run_job, whatever stage fails; and
\* while one job's Runner has failed, every other unfinished Runner can still
\* step, and submissions and status queries are still served.
C20_EveryRunnerTerminates ==
    /\ \A k \in 1..Cardinality(UUIDS) :
          (Len(tasks) >= k) ~> (Len(tasks) >= k /\ tasks[k].pc = "done")
    /\ [](\A k \in DOMAIN tasks :
             tasks[k].err # "none" =>
                /\ \A m \in DOMAIN tasks :
                      tasks[m].pc # "done" => ENABLED RunnerStep(m)
                /\ \A url \in Urls :
                      (url = "" \/ uuid4 # {}) => ENABLED process_video(url)
                /\ \A q \in JobIdStrings : ENABLED status(q))

\* The first Runner failed in detection; the second, scheduled after that,
\* completed all its segments.
C20_Witness ==
    /\ Len(tasks) = 2
    /\ tasks[1].err = "detect"
    /\ tasks[2].pc = "done"
    /\ tasks[2].err = "none"
    /\ tasks[2].burned = MaxSegs

====
